---- MODULE Spec2Model ----
(***************************************************************************)
(* Model of the Reversi rules engine of rusthello                          *)
(* (src/rusthello/reversi/turn.rs): the Turn value, the legality scan      *)
(* check_move / check_move_along_direction, the capture scan               *)
(* make_move_along_direction, the move application make_move and the       *)
(* full-board scan can_move.  The Board / Coord collaborator               *)
(* (reversi::board) is modelled from its contract.                         *)
(***************************************************************************)
EXTENDS Integers, Sequences, FiniteSets, TLC

\* ------------------------------------------------------------------ bounds
\* Number of plies for which the driving loop tries every coordinate; from
\* then on it plays the first cell, in row-major order, that captures.
MaxFree == 2

\* Largest row / column index a caller passes (BOARD_SIZE and above are
\* outside the board).
MaxIndex == 8

\* ------------------------------------------------- reversi::board contract
BOARD_SIZE == 8

NUM_CELLS == BOARD_SIZE * BOARD_SIZE

Dark == "Dark"

Light == "Light"

\* Option::None, for a Cell (no disk) and for a State (ended game).
None == "None"

Side == {Dark, Light}

opposite(side) == IF side = Dark THEN Light ELSE Dark

Rows == 0 .. (BOARD_SIZE - 1)

Coord(row, col) == [row |-> row, col |-> col]

InBounds(coord) == coord.row \in Rows /\ coord.col \in Rows

\* The eight compass directions, in a fixed order.
DIRECTIONS ==
  << [dr |-> -1, dc |->  0], [dr |-> -1, dc |->  1], [dr |->  0, dc |->  1],
     [dr |->  1, dc |->  1], [dr |->  1, dc |->  0], [dr |->  1, dc |-> -1],
     [dr |->  0, dc |-> -1], [dr |-> -1, dc |-> -1] >>

DirIdx == 1 .. Len(DIRECTIONS)

Ok(v) == [kind |-> "Ok", val |-> v]

Err(e) == [kind |-> "Err", err |-> e]

OutOfBoundCoord(coord) == [name |-> "OutOfBoundCoord", coord |-> coord]

CellAlreadyTaken(coord) == [name |-> "CellAlreadyTaken", coord |-> coord]

EmptyCell(coord) == [name |-> "EmptyCell", coord |-> coord]

IllegalMove(coord) == [name |-> "IllegalMove", coord |-> coord]

EndedGame == [name |-> "EndedGame"]

\* The value () of a successful Result<()>.
Unit == [unit |-> TRUE]

\* coord.step(dir): the neighbouring coordinate, or a bounds error.
step(coord, dir) ==
  LET next == Coord(coord.row + dir.dr, coord.col + dir.dc)
  IN  IF InBounds(next) THEN Ok(next) ELSE Err(OutOfBoundCoord(next))

get_cell(board, coord) ==
  IF InBounds(coord) THEN Ok(board[coord.row][coord.col])
  ELSE Err(OutOfBoundCoord(coord))

get_disk(board, coord) ==
  IF ~InBounds(coord) THEN Err(OutOfBoundCoord(coord))
  ELSE IF board[coord.row][coord.col] = None THEN Err(EmptyCell(coord))
  ELSE Ok(board[coord.row][coord.col])

place_disk(board, side, coord) ==
  IF ~InBounds(coord) THEN Err(OutOfBoundCoord(coord))
  ELSE IF board[coord.row][coord.col] # None THEN Err(CellAlreadyTaken(coord))
  ELSE Ok([board EXCEPT ![coord.row][coord.col] = side])

flip_disk(board, coord) ==
  IF ~InBounds(coord) THEN Err(OutOfBoundCoord(coord))
  ELSE IF board[coord.row][coord.col] = None THEN Err(EmptyCell(coord))
  ELSE Ok([board EXCEPT ![coord.row][coord.col] = opposite(@)])

EmptyBoard == [r \in Rows |-> [c \in Rows |-> None]]

\* ---------------------------------------------------------- u8 arithmetic
U8 == 256

u8_add(a, b) == (a + b) % U8

u8_sub(a, b) == (a - b) % U8

\* --------------------------------------------------------------- Turn
\* place_disk(...).expect("This cannot fail")
expect(result) == result.val

\* first_turn with the colours of the four starting disks exchanged.
first_turn_swapped ==
  LET b1 == expect(place_disk(EmptyBoard, Light, Coord(3, 4)))
      b2 == expect(place_disk(b1, Light, Coord(4, 3)))
      b3 == expect(place_disk(b2, Dark, Coord(3, 3)))
      b4 == expect(place_disk(b3, Dark, Coord(4, 4)))
  IN  [board |-> b4, state |-> Dark, score_dark |-> 2, score_light |-> 2]

first_turn ==
  LET b1 == expect(place_disk(EmptyBoard, Dark, Coord(3, 4)))
      b2 == expect(place_disk(b1, Dark, Coord(4, 3)))
      b3 == expect(place_disk(b2, Light, Coord(3, 3)))
      b4 == expect(place_disk(b3, Light, Coord(4, 4)))
  IN  [board |-> b4, state |-> Dark, score_dark |-> 2, score_light |-> 2]

get_tempo(t) == u8_add(t.score_light, t.score_dark)

is_endgame(t) == t.state = None

\* try!(result): an error returns at once, a value goes on into `rest'.
try(result, rest(_)) ==
  IF result.kind = "Err" THEN Err(result.err) ELSE rest(result.val)

\* next_coord.step(dir).map(|()| self.get_cell(next_coord)): Ok with the
\* neighbouring coordinate and the side of its disk when the pattern
\* Ok(Ok(Some(disk))) matches, an error when the step leaves the board or
\* the cell is empty.
step_to_disk(t, coord, dir) ==
  try(step(coord, dir), LAMBDA next_coord :
    try(get_disk(t.board, next_coord), LAMBDA disk :
      Ok([coord |-> next_coord, side |-> disk])))

\* The `while let' loop of check_move_along_direction: keep stepping while
\* the next cell holds a disk; succeed on the first disk of the side to move.
RECURSIVE check_scan(_, _, _)
check_scan(t, coord, dir) ==
  LET successive_disk == step_to_disk(t, coord, dir)
  IN  IF successive_disk.kind # "Ok" THEN FALSE
      ELSE IF successive_disk.val.side = t.state THEN TRUE
      ELSE check_scan(t, successive_disk.val.coord, dir)

\* check_move_along_direction without the test that the neighbouring disk
\* belongs to the other side.
check_move_along_direction_any_neighbour(t, coord, dir) ==
  LET next_disk == step_to_disk(t, coord, dir)
  IN  IF next_disk.kind # "Ok" THEN FALSE
      ELSE check_scan(t, next_disk.val.coord, dir)

check_move_along_direction(t, coord, dir) ==
  LET next_disk == step_to_disk(t, coord, dir)
  IN  IF next_disk.kind # "Ok" THEN FALSE
      ELSE IF opposite(next_disk.val.side) = t.state
           THEN check_scan(t, next_disk.val.coord, dir)
      ELSE FALSE

check_move(t, coord) ==
  IF t.state = None THEN Err(EndedGame)
  ELSE try(get_cell(t.board, coord), LAMBDA cell :
         IF cell # None THEN Err(CellAlreadyTaken(coord))
         ELSE IF \E i \in DirIdx :
                   check_move_along_direction(t, coord, DIRECTIONS[i])
              THEN Ok(Unit)
         ELSE Err(IllegalMove(coord)))

can_move(t) ==
  \E row \in Rows, col \in Rows :
     /\ t.board[row][col] = None
     /\ \E i \in DirIdx :
          check_move_along_direction(t, Coord(row, col), DIRECTIONS[i])

\* eat_loop that stops at a disk of the other side.
RECURSIVE eat_loop_stops_at_other(_, _, _, _, _)
eat_loop_stops_at_other(board, side, coord, dir, eating) ==
  try(step(coord, dir), LAMBDA next_coord :
    try(get_disk(board, next_coord), LAMBDA disk :
      IF disk # side THEN Ok([board |-> board, eating |-> eating])
      ELSE try(flip_disk(board, next_coord), LAMBDA flipped :
             eat_loop_stops_at_other(flipped, side, next_coord, dir,
                                     u8_add(eating, 1)))))

\* eat_loop with the count of eaten disks never incremented.
RECURSIVE eat_loop_count_once(_, _, _, _, _)
eat_loop_count_once(board, side, coord, dir, eating) ==
  try(step(coord, dir), LAMBDA next_coord :
    try(get_disk(board, next_coord), LAMBDA disk :
      IF disk = side THEN Ok([board |-> board, eating |-> eating])
      ELSE try(flip_disk(board, next_coord), LAMBDA flipped :
             eat_loop_count_once(flipped, side, next_coord, dir, eating))))

\* The `while' loop of make_move_along_direction: step, read the disk (both
\* may fail), stop at a disk of `side', otherwise flip it and count it.
RECURSIVE eat_loop(_, _, _, _, _)
eat_loop(board, side, coord, dir, eating) ==
  try(step(coord, dir), LAMBDA next_coord :
    try(get_disk(board, next_coord), LAMBDA disk :
      IF disk = side THEN Ok([board |-> board, eating |-> eating])
      ELSE try(flip_disk(board, next_coord), LAMBDA flipped :
             eat_loop(flipped, side, next_coord, dir, u8_add(eating, 1)))))

\* eat_scores with the signs of the Dark branch in both branches.
eat_scores_same_signs(t, side, board, eating) ==
  [t EXCEPT !.board = board,
            !.score_light = u8_sub(t.score_light, eating),
            !.score_dark  = u8_add(t.score_dark, eating)]

\* Score update at the end of make_move_along_direction.
eat_scores(t, side, board, eating) ==
  IF side = Light
  THEN [t EXCEPT !.board = board,
                 !.score_light = u8_add(t.score_light, eating),
                 !.score_dark  = u8_sub(t.score_dark, eating)]
  ELSE [t EXCEPT !.board = board,
                 !.score_light = u8_sub(t.score_light, eating),
                 !.score_dark  = u8_add(t.score_dark, eating)]

\* self.state.ok_or(error)
ok_or(option, error) == IF option = None THEN Err(error) ELSE Ok(option)

\* first_flip that leaves the neighbouring disk as it is.
first_flip_skipped(board, coord) == board

\* `let _ = ...flip_disk(next_coord)': the first flip, its Result dropped.
first_flip(board, coord) ==
  LET f == flip_disk(board, coord)
  IN  IF f.kind = "Ok" THEN f.val ELSE board

make_move_along_direction(t, coord, dir) ==
  try(ok_or(t.state, EndedGame), LAMBDA side :
    try(step(coord, dir), LAMBDA next_coord :
      try(eat_loop(first_flip(t.board, next_coord), side, next_coord, dir, 1),
          LAMBDA eaten :
            Ok(eat_scores(t, side, eaten.board, eaten.eating)))))

\* The `for &dir in &DIRECTIONS' loop of make_move from direction i on: the
\* legality scan reads the receiver, the capture scan writes the clone.
RECURSIVE eat_directions(_, _, _, _, _)
eat_directions(self, turn_after_move, legal, coord, i) ==
  IF i > Len(DIRECTIONS)
  THEN Ok([turn |-> turn_after_move, legal |-> legal])
  ELSE IF check_move_along_direction(self, coord, DIRECTIONS[i])
       THEN try(make_move_along_direction(turn_after_move, coord,
                                          DIRECTIONS[i]),
                LAMBDA eaten : eat_directions(self, eaten, TRUE, coord, i + 1))
       ELSE eat_directions(self, turn_after_move, legal, coord, i + 1)

\* next_state that ends the game as soon as the other side cannot move.
next_state_no_pass_back(turn_after_move, turn_side) ==
  IF get_tempo(turn_after_move) = NUM_CELLS % U8
  THEN [turn_after_move EXCEPT !.state = None]
  ELSE IF can_move([turn_after_move EXCEPT !.state = opposite(turn_side)])
       THEN [turn_after_move EXCEPT !.state = opposite(turn_side)]
  ELSE [turn_after_move EXCEPT !.state = None]

\* next_state that hands the turn to the other side without asking whether
\* it can move.
next_state_always_opposite(turn_after_move, turn_side) ==
  IF get_tempo(turn_after_move) = NUM_CELLS % U8
  THEN [turn_after_move EXCEPT !.state = None]
  ELSE [turn_after_move EXCEPT !.state = opposite(turn_side)]

\* next_state that passes the turn back without asking whether the mover
\* can move.
next_state_pass_unchecked(turn_after_move, turn_side) ==
  IF get_tempo(turn_after_move) = NUM_CELLS % U8
  THEN [turn_after_move EXCEPT !.state = None]
  ELSE IF can_move([turn_after_move EXCEPT !.state = opposite(turn_side)])
       THEN [turn_after_move EXCEPT !.state = opposite(turn_side)]
  ELSE [turn_after_move EXCEPT !.state = turn_side]

\* Lines 162-176 of make_move: who plays next on the new board.
next_state(turn_after_move, turn_side) ==
  IF get_tempo(turn_after_move) = NUM_CELLS % U8
  THEN [turn_after_move EXCEPT !.state = None]
  ELSE IF can_move([turn_after_move EXCEPT !.state = opposite(turn_side)])
       THEN [turn_after_move EXCEPT !.state = opposite(turn_side)]
  ELSE IF can_move([turn_after_move EXCEPT !.state = turn_side])
       THEN [turn_after_move EXCEPT !.state = turn_side]
  ELSE [turn_after_move EXCEPT !.state = None]

\* place_and_score that places the disk and leaves the scores as they are.
place_and_score_no_point(turn_after_move, turn_side, coord) ==
  try(place_disk(turn_after_move.board, turn_side, coord), LAMBDA board :
    Ok([turn_after_move EXCEPT !.board = board]))

\* Lines 151-156 of make_move: the new disk and its point.
place_and_score(turn_after_move, turn_side, coord) ==
  try(place_disk(turn_after_move.board, turn_side, coord), LAMBDA board :
    Ok(IF turn_side = Dark
       THEN [turn_after_move EXCEPT
               !.board = board,
               !.score_dark = u8_add(turn_after_move.score_dark, 1)]
       ELSE [turn_after_move EXCEPT
               !.board = board,
               !.score_light = u8_add(turn_after_move.score_light, 1)]))

\* make_move_in_progress that places the disk whether or not a direction
\* captured.
make_move_in_progress_unchecked(self, turn_side, coord) ==
  try(eat_directions(self, self, FALSE, coord, 1), LAMBDA eaten :
    try(place_and_score(eaten.turn, turn_side, coord), LAMBDA placed :
      Ok(next_state(placed, turn_side))))

\* Lines 140-180 of make_move: the move of turn_side on an empty cell; the
\* clone turn_after_move starts as a copy of the receiver.
make_move_in_progress(self, turn_side, coord) ==
  try(eat_directions(self, self, FALSE, coord, 1), LAMBDA eaten :
    IF eaten.legal
    THEN try(place_and_score(eaten.turn, turn_side, coord), LAMBDA placed :
           Ok(next_state(placed, turn_side)))
    ELSE Err(IllegalMove(coord)))

\* self.board.get_cell(coord) matched against Ok(None).
is_empty_cell(board, coord) ==
  LET cell == get_cell(board, coord)
  IN  cell.kind = "Ok" /\ cell.val = None

\* A make_move call: `self' is the receiver as the call leaves it, `result'
\* the returned Result<Turn>.
Returned(self, result) == [self |-> self, result |-> result]

\* What make_move_in_place leaves in the receiver.
InPlace(self, result) ==
  [self |-> IF result.kind = "Ok" THEN result.val ELSE self,
   result |-> result]

\* make_move that tests for the ended game before it reads the cell, in the
\* order of check_move.
make_move_ended_first(self, coord) ==
  Returned(self,
    IF self.state = None THEN Err(EndedGame)
    ELSE IF is_empty_cell(self.board, coord)
         THEN make_move_in_progress(self, self.state, coord)
    ELSE Err(CellAlreadyTaken(coord)))

\* make_move that returns the untouched clone, instead of EndedGame, on an
\* ended Turn.
make_move_ended_ok(self, coord) ==
  Returned(self,
    IF is_empty_cell(self.board, coord)
    THEN IF self.state # None
         THEN make_move_in_progress(self, self.state, coord)
         ELSE Ok(self)
    ELSE Err(CellAlreadyTaken(coord)))

\* make_move that applies the move to the receiver itself.
make_move_in_place(self, coord) ==
  InPlace(self,
    IF is_empty_cell(self.board, coord)
    THEN IF self.state # None
         THEN make_move_in_progress(self, self.state, coord)
         ELSE Err(EndedGame)
    ELSE Err(CellAlreadyTaken(coord)))

\* make_move(&self, coord): the receiver is only read.
make_move(self, coord) ==
  Returned(self,
    IF is_empty_cell(self.board, coord)
    THEN IF self.state # None
         THEN make_move_in_progress(self, self.state, coord)
         ELSE Err(EndedGame)
    ELSE Err(CellAlreadyTaken(coord)))

\* ------------------------------------------------------ the driving loop
Coords == { Coord(r, c) : r \in 0 .. MaxIndex, c \in 0 .. MaxIndex }

Probes == { Coord(0, 0), Coord(3, 3), Coord(BOARD_SIZE - 1, BOARD_SIZE - 1),
            Coord(MaxIndex, 0), Coord(3, MaxIndex) }

\* The first cell, in row-major order from cell number i, that check_move
\* accepts on Turn t (none: the empty set).
RECURSIVE FirstAccepted(_, _)
FirstAccepted(t, i) ==
  IF i >= NUM_CELLS THEN {}
  ELSE LET c == Coord(i \div BOARD_SIZE, i % BOARD_SIZE)
       IN  IF check_move(t, c).kind = "Ok" THEN {c}
           ELSE FirstAccepted(t, i + 1)

\* The cells on which the driving loop continues the game from Turn t.
Played(t) ==
  IF get_tempo(t) - 4 < MaxFree THEN Coords ELSE FirstAccepted(t, 0)

\* The cells the driving loop passes to check_move / make_move on Turn t.
Tried(t) == IF t.state = None THEN Coords ELSE Played(t) \cup Probes

NoCall == [op |-> "none"]

VARIABLES turn, prev, res

vars == << turn, prev, res >>

TypeOK ==
  /\ turn.state \in Side \cup {None}
  /\ prev.state \in Side \cup {None}
  /\ res.op \in {"none", "check_move", "make_move"}

Init ==
  /\ turn = first_turn
  /\ prev = first_turn
  /\ res = NoCall

\* The record of a call: the operation, the Turn it was made on (which of
\* the two held, and its value before the call), the coordinate, the Result.
Call(op, on, before, coord, result) ==
  [op |-> op, on |-> on, coord |-> coord, before |-> before,
   result |-> result]

\* check_move(coord) on the current Turn.
CheckMove(coord) ==
  /\ res = NoCall
  /\ res' = Call("check_move", "turn", turn, coord, check_move(turn, coord))
  /\ UNCHANGED << turn, prev >>

\* The effect of a make_move call m on the current Turn.
MakeMoveReturns(m, coord) ==
  /\ turn' = m.self
  /\ res' = Call("make_move", "turn", turn, coord, m.result)
  /\ UNCHANGED prev

\* make_move(coord) on the current Turn.
MakeMove(coord) ==
  /\ res = NoCall
  /\ MakeMoveReturns(make_move(turn, coord), coord)

\* The effect of a make_move call m on the parent of the current Turn.
MakeMovePrevReturns(m, coord) ==
  /\ prev' = m.self
  /\ res' = Call("make_move", "prev", prev, coord, m.result)
  /\ UNCHANGED turn

\* make_move(coord) on the Turn the current one was derived from.
MakeMovePrev(coord) ==
  /\ res = NoCall
  /\ prev # turn
  /\ MakeMovePrevReturns(make_move(prev, coord), coord)

\* The driving loop continues with the Turn a successful make_move returned.
Advance ==
  /\ res.op = "make_move"
  /\ res.result.kind = "Ok"
  /\ res.coord \in Played(res.before)
  /\ turn' = res.result.val
  /\ prev' = IF res.on = "turn" THEN turn ELSE prev
  /\ res' = NoCall

\* The driving loop drops the Result of its last call.
Drop ==
  /\ res # NoCall
  /\ res' = NoCall
  /\ UNCHANGED << turn, prev >>

Next ==
  \/ \E coord \in Tried(turn) : CheckMove(coord)
  \/ \E coord \in Tried(turn) : MakeMove(coord)
  \/ \E coord \in Tried(prev) : MakeMovePrev(coord)
  \/ Advance
  \/ Drop

Spec == Init /\ [][Next]_vars

\* ------------------------------------------------ vocabulary of the claims
BoardCoords == { Coord(r, c) : r \in Rows, c \in Rows }

At(board, coord) == board[coord.row][coord.col]

Count(board, v) == Cardinality({ c \in BoardCoords : At(board, c) = v })

Shift(coord, dir, k) == Coord(coord.row + k * dir.dr, coord.col + k * dir.dc)

\* From coord in direction dir: one or more disks of the other side, then a
\* disk of `side'.
Captures(board, side, coord, dir) ==
  \E k \in 2 .. (BOARD_SIZE - 1) :
     /\ InBounds(Shift(coord, dir, k))
     /\ At(board, Shift(coord, dir, k)) = side
     /\ \A j \in 1 .. (k - 1) : At(board, Shift(coord, dir, j)) = opposite(side)

CaptureExists(board, side, coord) ==
  \E i \in DirIdx : Captures(board, side, coord, DIRECTIONS[i])

HasCapture(board, side) ==
  \E c \in BoardCoords : At(board, c) = None /\ CaptureExists(board, side, c)

BoardFull(board) == \A c \in BoardCoords : At(board, c) # None

\* A make_move call has just returned a new Turn.
Moved == res.op = "make_move" /\ res.result.kind = "Ok"

\* The Turns the driving loop has obtained: the two it holds, looked at when
\* no call is pending (a call changes neither), and the one a call returned.
Turns ==
  IF res = NoCall THEN {turn, prev}
  ELSE IF Moved THEN {res.result.val} ELSE {}

\* The disks of the receiver that the returned Turn shows on the other side.
FlippedCells ==
  { c \in BoardCoords : /\ At(res.before.board, c) # None
                        /\ At(res.result.val.board, c) # At(res.before.board, c) }

\* --------------------------------------------------------------- claims
\* C1: in every Turn reached from first_turn() by successful make_move calls,
\* score_dark is the number of Dark disks on the board and score_light the
\* number of Light disks, so their sum is the number of occupied cells and
\* get_tempo(), and both scores lie in 0 .. 64.
C1_ScoresCountDisks ==
  \A t \in Turns :
     /\ t.score_dark = Count(t.board, Dark)
     /\ t.score_light = Count(t.board, Light)
     /\ t.score_dark + t.score_light = NUM_CELLS - Count(t.board, None)
     /\ get_tempo(t) = t.score_dark + t.score_light
     /\ t.score_dark \in 0 .. NUM_CELLS
     /\ t.score_light \in 0 .. NUM_CELLS

\* A move of Dark that flipped disks in more than one step has returned.
C1_Witness ==
  /\ Moved
  /\ res.before.state = Dark
  /\ Cardinality(FlippedCells) >= 2
  /\ res.result.val.score_dark = Count(res.result.val.board, Dark)

\* C2: a reached Turn is ended exactly when its board is full or neither
\* Dark nor Light has a capturing move on it; a Turn of tempo 64 is ended.
C2_EndedIffFullOrNoMoves ==
  \A t \in Turns :
     /\ is_endgame(t) <=> \/ BoardFull(t.board)
                          \/ (~HasCapture(t.board, Dark)
                              /\ ~HasCapture(t.board, Light))
     /\ get_tempo(t) = NUM_CELLS => is_endgame(t)

\* A move has ended the game on a board that still has empty cells.
C2_Witness ==
  /\ Moved
  /\ is_endgame(res.result.val)
  /\ ~BoardFull(res.result.val.board)
  /\ ~HasCapture(res.result.val.board, Dark)
  /\ ~HasCapture(res.result.val.board, Light)

\* C3: after a successful make_move by side S, with F the number of disks
\* flipped, the score of S has grown by 1 + F, the score of the other side
\* has shrunk by F and the tempo has grown by 1, for S Dark and for S Light.
C3_ScoreDeltas ==
  Moved =>
    LET old == res.before
        new == res.result.val
        F   == Cardinality(FlippedCells)
    IN  /\ get_tempo(new) = get_tempo(old) + 1
        /\ old.state = Dark =>
             /\ new.score_dark = old.score_dark + 1 + F
             /\ new.score_light = old.score_light - F
        /\ old.state = Light =>
             /\ new.score_light = old.score_light + 1 + F
             /\ new.score_dark = old.score_dark - F

\* A move of Light that flipped at least two disks has returned.
C3_Witness ==
  /\ Moved
  /\ res.before.state = Light
  /\ Cardinality(FlippedCells) >= 2
  /\ res.result.val.score_light = res.before.score_light + 1
                                  + Cardinality(FlippedCells)

\* C4: on a Turn in progress with side S to move and an empty cell c of the
\* board, check_move(c) succeeds exactly when some direction from c shows one
\* or more disks of the other side followed at once by a disk of S, and
\* fails with IllegalMove(c) otherwise.
C4_CheckMoveIffCapture ==
  /\ (res.op = "check_move" /\ res.before.state # None
        /\ InBounds(res.coord) /\ At(res.before.board, res.coord) = None) =>
       IF CaptureExists(res.before.board, res.before.state, res.coord)
       THEN res.result.kind = "Ok"
       ELSE res.result = Err(IllegalMove(res.coord))
  /\ (res = NoCall /\ turn.state # None) =>
       \A c \in BoardCoords :
          At(turn.board, c) = None =>
            IF CaptureExists(turn.board, turn.state, c)
            THEN check_move(turn, c).kind = "Ok"
            ELSE check_move(turn, c) = Err(IllegalMove(c))

\* check_move has accepted a cell for Light, and the capture found runs over
\* at least two disks.
C4_Witness ==
  /\ res.op = "check_move"
  /\ res.before.state = Light
  /\ res.result.kind = "Ok"
  /\ \E i \in DirIdx :
        /\ Captures(res.before.board, Light, res.coord, DIRECTIONS[i])
        /\ At(res.before.board, Shift(res.coord, DIRECTIONS[i], 2)) = Dark

\* The Turn a call was made on, as the call has left it.
Receiver == IF res.on = "turn" THEN turn ELSE prev

\* C5: on an ended Turn make_move(c) fails with EndedGame for every
\* coordinate c, occupied cells included.
C5_EndedGameOnEveryCoord ==
  (res.op = "make_move" /\ is_endgame(res.before)) =>
     res.result = Err(EndedGame)

\* C6: after a successful make_move by side S that leaves the board not
\* full, the other side is to move if it has a capturing move on the new
\* board, otherwise S moves again if S has one, otherwise the Turn is ended.
C6_NextSideOrPass ==
  (Moved /\ ~BoardFull(res.result.val.board)) =>
     LET S     == res.before.state
         board == res.result.val.board
     IN  res.result.val.state =
           IF HasCapture(board, opposite(S)) THEN opposite(S)
           ELSE IF HasCapture(board, S) THEN S
           ELSE None

\* A move has left the other side without a capturing move, and the mover
\* is to move again.
C6_Witness ==
  /\ Moved
  /\ ~BoardFull(res.result.val.board)
  /\ ~HasCapture(res.result.val.board, opposite(res.before.state))
  /\ HasCapture(res.result.val.board, res.before.state)
  /\ res.result.val.state = res.before.state

\* C7: make_move(c) on an occupied cell fails with CellAlreadyTaken(c),
\* whatever the state of the Turn, and leaves the board, state and scores of
\* the Turn as they were.
C7_OccupiedCellTaken ==
  (res.op = "make_move" /\ InBounds(res.coord)
     /\ At(res.before.board, res.coord) # None) =>
     /\ res.result = Err(CellAlreadyTaken(res.coord))
     /\ Receiver = res.before

\* make_move has been called on an occupied cell of an ended Turn.
C7_Witness ==
  /\ res.op = "make_move"
  /\ is_endgame(res.before)
  /\ InBounds(res.coord)
  /\ At(res.before.board, res.coord) # None
  /\ res.result = Err(CellAlreadyTaken(res.coord))

\* C8: on an ended Turn neither check_move nor make_move succeeds for any
\* coordinate, so no Turn is ever derived from an ended Turn.
C8_EndedIsTerminal ==
  /\ (res.op \in {"check_move", "make_move"} /\ is_endgame(res.before)) =>
       res.result.kind = "Err"
  /\ Moved => ~is_endgame(res.before)
  /\ \A t \in Turns :
       is_endgame(t) =>
         \A c \in Coords : /\ check_move(t, c).kind = "Err"
                           /\ make_move(t, c).result.kind = "Err"

\* make_move has been refused on an empty cell of an ended Turn.
C8_Witness ==
  /\ res.op = "make_move"
  /\ is_endgame(res.before)
  /\ InBounds(res.coord)
  /\ At(res.before.board, res.coord) = None
  /\ res.result.kind = "Err"
  /\ is_endgame(turn)

\* C9: a make_move call, successful or not, leaves the board, state and
\* scores of the Turn it is called on unchanged, and leaves unchanged the
\* other Turn derived from the same Turn.
C9_MakeMoveKeepsReceiver ==
  [][res'.op = "make_move" =>
       (turn' = turn /\ prev' = prev /\ Receiver' = res'.before)]_vars

\* Two different Turns derived from the same Turn are held: the current one
\* and the one a make_move on its parent has just returned.
C9_Witness ==
  /\ Moved
  /\ res.on = "prev"
  /\ res.before = prev
  /\ res.result.val # turn
  /\ res.result.val # prev
  /\ turn # prev

\* C10: for a coordinate outside the board on a Turn in progress, check_move
\* and make_move both fail with the bounds error of the board.
C10_BoundsErrorPropagated ==
  (res.op \in {"check_move", "make_move"} /\ ~is_endgame(res.before)
     /\ ~InBounds(res.coord)) =>
     res.result = Err(OutOfBoundCoord(res.coord))

\* The starting position: Dark on (3,4) and (4,3), Light on (3,3) and (4,4),
\* every other cell empty.
StartCell(row, col) ==
  IF << row, col >> \in { << 3, 4 >>, << 4, 3 >> } THEN Dark
  ELSE IF << row, col >> \in { << 3, 3 >>, << 4, 4 >> } THEN Light
  ELSE None

IsStart(t) ==
  /\ t.score_dark = 2
  /\ t.score_light = 2
  /\ get_tempo(t) = 4
  /\ t.state = Dark
  /\ \A row \in Rows, col \in Rows : t.board[row][col] = StartCell(row, col)

\* C11: first_turn() yields score_dark = 2, score_light = 2, tempo = 4, Dark
\* to move, Dark disks exactly at (3,4) and (4,3), Light disks exactly at
\* (3,3) and (4,4) and every other cell empty; it is the Turn a game starts
\* from, and the only held Turn on which no move has been made.
C11_FirstTurn ==
  /\ IsStart(first_turn)
  /\ \A t \in Turns : get_tempo(t) <= 4 => IsStart(t)
  /\ turn = prev => IsStart(turn)

\* The game is at its first Turn and check_move has been asked about a cell.
C11_Witness ==
  /\ turn = first_turn
  /\ prev = first_turn
  /\ res.op = "check_move"
  /\ res.before = first_turn
  /\ At(turn.board, Coord(3, 4)) = Dark
  /\ At(turn.board, Coord(3, 3)) = Light

\* make_move and check_move agree on cell c of Turn t, and make_move fails
\* with IllegalMove(c) exactly when no direction from c captures.
MoveAgreesWithCheck(t, c) ==
  /\ make_move(t, c).result.kind = "Ok" <=> check_move(t, c).kind = "Ok"
  /\ make_move(t, c).result = Err(IllegalMove(c))
       <=> ~CaptureExists(t.board, t.state, c)
  /\ ~CaptureExists(t.board, t.state, c) => make_move(t, c).result.kind = "Err"

\* C12: on a Turn in progress and an empty cell c of the board, make_move(c)
\* returns a new Turn exactly when check_move(c) succeeds, and fails with
\* IllegalMove(c) exactly when no direction from c yields a capture; an empty
\* cell that captures nothing is never accepted.
C12_MakeMoveIffCheckMove ==
  /\ (res.op = "make_move" /\ ~is_endgame(res.before)
        /\ InBounds(res.coord) /\ At(res.before.board, res.coord) = None) =>
       /\ res.result.kind = "Ok"
            <=> check_move(res.before, res.coord).kind = "Ok"
       /\ res.result = Err(IllegalMove(res.coord))
            <=> ~CaptureExists(res.before.board, res.before.state, res.coord)
  /\ (res = NoCall /\ ~is_endgame(turn)) =>
       \A c \in BoardCoords :
          At(turn.board, c) = None => MoveAgreesWithCheck(turn, c)

\* make_move has refused, with IllegalMove, an empty cell next to a disk of
\* the other side from which no direction captures.
C12_Witness ==
  /\ res.op = "make_move"
  /\ res.before.state = Light
  /\ InBounds(res.coord)
  /\ At(res.before.board, res.coord) = None
  /\ res.result = Err(IllegalMove(res.coord))
  /\ check_move(res.before, res.coord) = Err(IllegalMove(res.coord))
  /\ \E i \in DirIdx :
        LET n == Shift(res.coord, DIRECTIONS[i], 1)
        IN  InBounds(n) /\ At(res.before.board, n) = Dark

\* The directions from coord in which `side' captures.
CapturingDirs(board, side, coord) ==
  { i \in DirIdx : Captures(board, side, coord, DIRECTIONS[i]) }

\* The disks `side' captures from coord: in each capturing direction, the
\* disks of the other side between coord and the first disk of `side'.
RunCells(board, side, coord) ==
  { x \in BoardCoords :
      \E i \in CapturingDirs(board, side, coord) :
         \E j \in 1 .. (BOARD_SIZE - 2) :
            /\ x = Shift(coord, DIRECTIONS[i], j)
            /\ \A h \in 1 .. j :
                  At(board, Shift(coord, DIRECTIONS[i], h)) = opposite(side) }

\* C13: after a successful make_move(c) by side S the new board differs from
\* the old one in exactly these cells: c holds a disk of S, and in every
\* capturing direction each disk of the run between c and the terminating
\* disk of S belongs to S; every other cell is unchanged.
C13_BoardChange ==
  Moved =>
    LET old == res.before.board
        new == res.result.val.board
        S   == res.before.state
        run == RunCells(old, S, res.coord)
    IN  /\ run # {}
        /\ \A x \in BoardCoords :
              At(new, x) = IF x = res.coord \/ x \in run THEN S
                           ELSE At(old, x)

\* A move has captured in at least two directions, in one of them more than
\* one disk.
C13_Witness ==
  /\ Moved
  /\ Cardinality(CapturingDirs(res.before.board, res.before.state,
                               res.coord)) >= 2
  /\ \E i \in DirIdx :
        /\ Captures(res.before.board, res.before.state, res.coord,
                    DIRECTIONS[i])
        /\ At(res.before.board, Shift(res.coord, DIRECTIONS[i], 2))
             = opposite(res.before.state)
  /\ At(res.result.val.board, res.coord) = res.before.state

\* The errors of the board that make_move could only return from part-way
\* through a move.
BoardErrors == {"OutOfBoundCoord", "EmptyCell"}

\* C14: on every reached Turn a make_move(c) whose check succeeds in some
\* direction never fails part-way: make_move_along_direction and place_disk
\* return no error of the board (no step off the board, no flip or read of
\* an empty cell, no placement on an occupied cell), and the u8 score
\* updates neither fall below 0 nor exceed 64.  Within one make_move the
\* score of the mover only grows and that of the other side only shrinks, so
\* the unwrapped final values bound every intermediate value.
C14_NoPartialFailure ==
  /\ (res.op = "make_move" /\ res.result.kind = "Err") =>
       res.result.err.name \notin BoardErrors
  /\ (res.op = "make_move" /\ ~is_endgame(res.before) /\ InBounds(res.coord)
        /\ At(res.before.board, res.coord) = None
        /\ CaptureExists(res.before.board, res.before.state, res.coord)) =>
       LET old   == res.before
           S     == old.state
           mine  == IF S = Dark THEN old.score_dark ELSE old.score_light
           other == IF S = Dark THEN old.score_light ELSE old.score_dark
           F     == Cardinality(RunCells(old.board, S, res.coord))
       IN  /\ res.result.kind = "Ok"
           /\ other - F >= 0
           /\ mine + F + 1 <= NUM_CELLS
           /\ res.result.val.score_dark
                = (IF S = Dark THEN mine + F + 1 ELSE other - F)
           /\ res.result.val.score_light
                = (IF S = Light THEN mine + F + 1 ELSE other - F)
           /\ \A i \in DirIdx :
                 check_move_along_direction(old, res.coord, DIRECTIONS[i]) =>
                   /\ flip_disk(old.board,
                                Shift(res.coord, DIRECTIONS[i], 1)).kind = "Ok"
                   /\ make_move_along_direction(old, res.coord,
                                                DIRECTIONS[i]).kind = "Ok"
                   /\ place_disk(old.board, S, res.coord).kind = "Ok"

\* A move has returned whose capture run ends on the edge of the board (the
\* next step would leave it) and which brought the mover to 50 disks or more.
C14_Witness ==
  /\ Moved
  /\ \E i \in DirIdx, k \in 2 .. (BOARD_SIZE - 1) :
        /\ Captures(res.before.board, res.before.state, res.coord,
                    DIRECTIONS[i])
        /\ InBounds(Shift(res.coord, DIRECTIONS[i], k))
        /\ At(res.before.board, Shift(res.coord, DIRECTIONS[i], k))
             = res.before.state
        /\ \A j \in 1 .. (k - 1) :
              At(res.before.board, Shift(res.coord, DIRECTIONS[i], j))
                = opposite(res.before.state)
        /\ ~InBounds(Shift(res.coord, DIRECTIONS[i], k + 1))
  /\ Count(res.result.val.board, res.before.state) >= 50

\* The empty cells of Turn t that check_move accepts and on which make_move
\* returns a new Turn.
LegalMoves(t) ==
  { c \in BoardCoords : /\ At(t.board, c) = None
                        /\ check_move(t, c).kind = "Ok"
                        /\ make_move(t, c).result.kind = "Ok" }

\* C15: in every reached Turn in progress the side to move has at least one
\* legal move: an empty cell that check_move accepts and on which make_move
\* returns a new Turn.
C15_InProgressHasMove ==
  \A t \in Turns :
     ~is_endgame(t) =>
       \E c \in BoardCoords : /\ At(t.board, c) = None
                              /\ check_move(t, c).kind = "Ok"
                              /\ make_move(t, c).result.kind = "Ok"

\* A move has returned a Turn on which the mover plays again, the other
\* side having no move, and exactly one cell is a legal move.
C15_Witness ==
  /\ Moved
  /\ res.result.val.state = res.before.state
  /\ ~HasCapture(res.result.val.board, opposite(res.before.state))
  /\ Cardinality(LegalMoves(res.result.val)) = 1

\* ------------------------------------------------------------ termination
\* The driving loop plays a legal move on the current Turn.
PlayLegal ==
  \E coord \in Played(turn) :
     MakeMove(coord) /\ res'.result.kind = "Ok"

\* The driving loop continues with the Turn returned for the current one.
AdvanceOnTurn == Advance /\ res.on = "turn"

\* A game played on: the driving loop plays a legal move whenever the state
\* is in progress and continues with the Turn returned.
PlayOn == PlayLegal \/ AdvanceOnTurn

\* ENABLED <<PlayOn>>_vars, written out: a legal move can be played on the
\* current Turn, or one has been played and the game can continue with it.
PlayOnEnabled ==
  \/ /\ res = NoCall
     /\ \E coord \in Played(turn) : make_move(turn, coord).result.kind = "Ok"
  \/ /\ res.op = "make_move"
     /\ res.on = "turn"
     /\ res.result.kind = "Ok"
     /\ res.coord \in Played(res.before)

\* WF_vars(PlayOn), with ENABLED written out as above: the driving loop does
\* not stop while it can play on.
PlayOnFair == ([]<>~PlayOnEnabled) \/ ([]<><<PlayOn>>_vars)

LiveSpec == Init /\ [][PlayOn]_vars /\ PlayOnFair

\* C16: every game terminates: each successful move raises the tempo by
\* exactly 1, the tempo of a Turn in progress lies in 4 .. 63, so a game has
\* at most 60 successful moves, and a game in which a legal move is played
\* whenever the state is in progress reaches an ended Turn.
C16_GameTerminates ==
  /\ [][AdvanceOnTurn => get_tempo(turn') = get_tempo(turn) + 1]_vars
  /\ [](\A t \in Turns :
          /\ get_tempo(t) \in 4 .. NUM_CELLS
          /\ ~is_endgame(t) => get_tempo(t) - 4 < NUM_CELLS - 4)
  /\ <>is_endgame(turn)

\* The game has ended with its 60th successful move, on the full board.
C16_Witness ==
  /\ is_endgame(turn)
  /\ res = NoCall
  /\ get_tempo(turn) - 4 = NUM_CELLS - 4
  /\ get_tempo(prev) = get_tempo(turn) - 1
  /\ ~is_endgame(prev)

====
